---- MODULE Spec2Model ----
(***************************************************************************)
(* Model of rtl/ecc/ECC.h, the generated register defines of the           *)
(* HCI_ECC_manager block, as a C preprocessor sees it.                     *)
(*                                                                         *)
(* The header is a sequence of 28 source lines.  A translation unit        *)
(* includes it one or more times; each inclusion is processed line by      *)
(* line against the translation unit's macro table and the stack of open   *)
(* conditional groups.  After an inclusion a driver computes register      *)
(* addresses as base address + offset from the macros the header defined.  *)
(***************************************************************************)
EXTENDS Integers, Sequences, FiniteSets, TLC

(***************************************************************************)
(* Bounds of the model.                                                    *)
(***************************************************************************)
\* how many times one translation unit includes the header
MaxIncludes == 3

\* base addresses at which a platform may map the block
Bases == {0, 4096, 4100}

(***************************************************************************)
(* Preprocessing tokens.                                                   *)
(***************************************************************************)
\* a pp-number, kept as written: the sequence of its characters
Num(chars) == [t |-> "num", digits |-> chars]
\* an identifier that may name a macro
Id(n) == [t |-> "id", name |-> n]
\* any other token of a text line (keyword, string literal, punctuator)
Tok(s) == [t |-> "other", s |-> s]

(***************************************************************************)
(* Macro names.  A name is kept as the tuple of the parts the generator    *)
(* joins with "_": <<block, register, kind>>.                              *)
(***************************************************************************)
BLOCK == "HCI_ECC_MANAGER"
GUARD == <<"_HCI_ECC_MANAGER_REG_DEFS_">>
CPLUSPLUS == <<"__cplusplus">>
WIDTH == <<BLOCK, "PARAM", "REG_WIDTH">>
OffsetName(r) == <<BLOCK, r, "REG_OFFSET">>

(***************************************************************************)
(* The lines of the header.  blank: an empty line or a line holding only   *)
(* a comment.                                                              *)
(***************************************************************************)
Ln(kind, name, body) == [kind |-> kind, name |-> name, body |-> body]
Blank == Ln("blank", <<>>, <<>>)

Line1 == Blank
Line2 == Blank
Line3 == Ln("ifndef", GUARD, <<>>)
\* the guard is tested but never defined
Line4NoGuard == Blank
Line4 == Ln("define", GUARD, <<>>)
Line5 == Blank
Line6 == Ln("ifdef", CPLUSPLUS, <<>>)
Line7 == Ln("text", <<>>, <<Tok("extern"), Tok("\"C\""), Tok("{")>>)
Line8 == Ln("endif", <<>>, <<>>)
Line9 == Blank
\* the width is emitted as 16
Line10Width16 == Ln("define", WIDTH, <<Num(<<"1", "6">>)>>)
\* the width is emitted as a reference to a macro of the including file
Line10Symbolic == Ln("define", WIDTH, <<Id(<<"REG_WIDTH">>)>>)
Line10 == Ln("define", WIDTH, <<Num(<<"3", "2">>)>>)
Line11 == Blank
Line12 == Blank
Line13 == Ln("define", OffsetName("DATA_CORRECTABLE_ERRORS"), <<Num(<<"0", "x", "0">>)>>)
Line14 == Blank
Line15 == Blank
\* the second register is given the first register's offset
Line16Alias == Ln("define", OffsetName("DATA_UNCORRECTABLE_ERRORS"), <<Num(<<"0", "x", "0">>)>>)
Line16 == Ln("define", OffsetName("DATA_UNCORRECTABLE_ERRORS"), <<Num(<<"0", "x", "4">>)>>)
Line17 == Blank
Line18 == Blank
\* the third register is placed at a byte that is no multiple of 4
Line19Odd == Ln("define", OffsetName("METADATA_CORRECTABLE_ERRORS"), <<Num(<<"0", "x", "9">>)>>)
Line19 == Ln("define", OffsetName("METADATA_CORRECTABLE_ERRORS"), <<Num(<<"0", "x", "8">>)>>)
Line20 == Blank
Line21 == Blank
\* the last register is placed one register further, leaving a hole
Line22Gap == Ln("define", OffsetName("METADATA_UNCORRECTABLE_ERRORS"), <<Num(<<"0", "x", "1", "0">>)>>)
Line22 == Ln("define", OffsetName("METADATA_UNCORRECTABLE_ERRORS"), <<Num(<<"0", "x", "c">>)>>)
\* a fifth register is emitted
Line23Fifth == Ln("define", OffsetName("STATUS"), <<Num(<<"0", "x", "1", "0">>)>>)
\* the width is emitted a second time, with another value
Line23Redefine == Ln("define", WIDTH, <<Num(<<"6", "4">>)>>)
Line23 == Blank
\* the closing brace is emitted under the opposite condition
Line24Inverted == Ln("ifndef", CPLUSPLUS, <<>>)
Line24 == Ln("ifdef", CPLUSPLUS, <<>>)
Line25 == Ln("text", <<>>, <<Tok("}")>>)
Line26 == Ln("endif", <<>>, <<>>)
Line27 == Ln("endif", <<>>, <<>>)
Line28 == Blank

\* the first two registers are emitted in the opposite order
HeaderSwapped ==
  << Line1, Line2, Line3, Line4, Line5, Line6, Line7, Line8, Line9, Line10,
     Line11, Line12, Line16, Line14, Line15, Line13, Line17, Line18, Line19,
     Line20, Line21, Line22, Line23, Line24, Line25, Line26, Line27, Line28 >>

Header ==
  << Line1, Line2, Line3, Line4, Line5, Line6, Line7, Line8, Line9, Line10,
     Line11, Line12, Line13, Line14, Line15, Line16, Line17, Line18, Line19,
     Line20, Line21, Line22, Line23, Line24, Line25, Line26, Line27, Line28 >>

NLines == Len(Header)

(***************************************************************************)
(* Integer constants: the value of a pp-number as C reads it               *)
(* (0x.. hexadecimal, 0.. octal, otherwise decimal; u/l suffixes ignored). *)
(***************************************************************************)
NoValue == 0 - 1

DigitChars ==
  << "0", "1", "2", "3", "4", "5", "6", "7", "8", "9", "a", "b", "c", "d", "e", "f" >>
UpperChars ==
  << "0", "1", "2", "3", "4", "5", "6", "7", "8", "9", "A", "B", "C", "D", "E", "F" >>

DigitVal(c) ==
  IF \E i \in 1..16 : DigitChars[i] = c
  THEN (CHOOSE i \in 1..16 : DigitChars[i] = c) - 1
  ELSE IF \E i \in 1..16 : UpperChars[i] = c
       THEN (CHOOSE i \in 1..16 : UpperChars[i] = c) - 1
       ELSE NoValue

RECURSIVE StripSuffix(_)
StripSuffix(chars) ==
  IF chars # <<>> /\ chars[Len(chars)] \in {"u", "U", "l", "L"}
  THEN StripSuffix(SubSeq(chars, 1, Len(chars) - 1))
  ELSE chars

RECURSIVE FoldDigits(_, _, _)
FoldDigits(chars, radix, acc) ==
  IF chars = <<>> THEN acc
  ELSE LET d == DigitVal(Head(chars))
       IN IF d = NoValue \/ d >= radix THEN NoValue
          ELSE FoldDigits(Tail(chars), radix, acc * radix + d)

ParseInteger(chars) ==
  LET c == StripSuffix(chars)
  IN IF c = <<>> THEN NoValue
     ELSE IF Len(c) >= 3 /\ c[1] = "0" /\ c[2] \in {"x", "X"}
          THEN FoldDigits(SubSeq(c, 3, Len(c)), 16, 0)
          ELSE IF Len(c) >= 2 /\ c[1] = "0"
               THEN FoldDigits(Tail(c), 8, 0)
               ELSE FoldDigits(c, 10, 0)

(***************************************************************************)
(* The macro table of a translation unit.                                  *)
(***************************************************************************)
\* a macro the translation unit itself may define before the include
USERMACRO == <<"REG_WIDTH">>
TUNames == {CPLUSPLUS, USERMACRO}

IdsOf(body) == {body[i].name : i \in {j \in 1..Len(body) : body[j].t = "id"}}

\* every macro name the header or the translation unit can mention
MacroNames ==
  TUNames
    \cup {Header[i].name : i \in {j \in 1..NLines : Header[j].kind \in {"ifndef", "ifdef", "define"}}}
    \cup UNION {IdsOf(Header[i].body) : i \in {j \in 1..NLines : Header[j].kind = "define"}}

Undefined == [defined |-> FALSE, body |-> <<>>]
Defined(body) == [defined |-> TRUE, body |-> body]

\* the macro tables a translation unit may hold when it first includes the
\* header: it is C or C++, and it may have defined a macro of its own.  It
\* defines none of the header's names: the guard is a reserved identifier
\* and the constants carry the block's prefix.
TUTables ==
  { [n \in MacroNames |->
       IF n = CPLUSPLUS THEN cpp ELSE IF n = USERMACRO THEN usr ELSE Undefined]
    : cpp \in {Undefined, Defined(<<Num(<<"2", "0", "1", "7", "0", "3", "L">>)>>)},
      usr \in {Undefined, Defined(<<Num(<<"6", "4">>)>>), Defined(<<Num(<<"0", "x", "1", "0">>)>>)} }

\* the value a use of macro n expands to: its replacement list rescanned for
\* further macros (a macro is not replaced inside its own expansion)
RECURSIVE ValueIn(_, _, _)
ValueIn(n, macros, hidden) ==
  IF n \notin MacroNames \/ n \in hidden \/ ~macros[n].defined \/ Len(macros[n].body) # 1
  THEN NoValue
  ELSE LET tk == macros[n].body[1]
       IN IF tk.t = "num" THEN ParseInteger(tk.digits)
          ELSE IF tk.t = "id" THEN ValueIn(tk.name, macros, hidden \cup {n})
          ELSE NoValue

Value(n, macros) == ValueIn(n, macros, {})

\* a text token as it reaches the translation unit
ExpandTok(tk, macros) ==
  IF tk.t = "id" /\ tk.name \in MacroNames /\ macros[tk.name].defined
  THEN macros[tk.name].body
  ELSE <<tk>>

RECURSIVE ExpandLine(_, _)
ExpandLine(toks, macros) ==
  IF toks = <<>> THEN <<>>
  ELSE ExpandTok(Head(toks), macros) \o ExpandLine(Tail(toks), macros)

(***************************************************************************)
(* One preprocessing step.  p is the preprocessor's state:                 *)
(*   macros  the macro table                                               *)
(*   cond    the open conditional groups, TRUE for a group being processed *)
(*   out     the tokens the header has passed on to the translation unit   *)
(*   order   the names the header's #define lines defined, in order        *)
(*   diag    the diagnostics raised                                        *)
(***************************************************************************)
Active(cond) == \A i \in 1..Len(cond) : cond[i]

DoIfndef(p, ln) ==
  [p EXCEPT !.cond = Append(@, Active(p.cond) /\ ~p.macros[ln.name].defined)]

DoIfdef(p, ln) ==
  [p EXCEPT !.cond = Append(@, Active(p.cond) /\ p.macros[ln.name].defined)]

DoEndif(p) ==
  IF p.cond = <<>>
  THEN [p EXCEPT !.diag = @ \cup {"#endif without #if"}]
  ELSE [p EXCEPT !.cond = SubSeq(@, 1, Len(@) - 1)]

\* defining a macro again is allowed only with the same replacement list
DoDefine(p, ln) ==
  IF ~Active(p.cond) THEN p
  ELSE [p EXCEPT
          !.macros = [@ EXCEPT ![ln.name] = Defined(ln.body)],
          !.order = Append(@, ln.name),
          !.diag = IF p.macros[ln.name].defined /\ p.macros[ln.name].body # ln.body
                   THEN @ \cup {"macro redefined"} ELSE @]

DoText(p, ln) ==
  IF ~Active(p.cond) THEN p
  ELSE [p EXCEPT !.out = @ \o ExpandLine(ln.body, p.macros)]

DoEndOfFile(p) ==
  IF p.cond # <<>>
  THEN [p EXCEPT !.diag = @ \cup {"unterminated conditional"}, !.cond = <<>>]
  ELSE p

StepLine(p, ln) ==
  CASE ln.kind = "ifndef" -> DoIfndef(p, ln)
    [] ln.kind = "ifdef" -> DoIfdef(p, ln)
    [] ln.kind = "endif" -> DoEndif(p)
    [] ln.kind = "define" -> DoDefine(p, ln)
    [] ln.kind = "text" -> DoText(p, ln)
    [] OTHER -> p

\* one whole inclusion of the header, from line i on
RECURSIVE RunFrom(_, _)
RunFrom(p, i) ==
  IF i > NLines THEN DoEndOfFile(p) ELSE RunFrom(StepLine(p, Header[i]), i + 1)

Include(p) == RunFrom(p, 1)

FreshPP(tbl) == [macros |-> tbl, cond |-> <<>>, out |-> <<>>, order |-> <<>>, diag |-> {}]

(***************************************************************************)
(* The registers and the driver's view of them.                            *)
(***************************************************************************)
\* the register names for which some line defines an offset constant
Registers == {n[2] : n \in {m \in MacroNames : Len(m) = 3 /\ m[1] = BLOCK /\ m[3] = "REG_OFFSET"}}

NoAddr == 0 - 1

(***************************************************************************)
(* The state machine.                                                      *)
(***************************************************************************)
VARIABLES
  macros,   \* the translation unit's macro table
  cond,     \* open conditional groups of the inclusion in progress
  out,      \* tokens the header passed on to the translation unit
  order,    \* names defined by the header's #define lines, in order
  diag,     \* diagnostics raised
  pc,       \* 0: outside the header; 1..NLines: next line; NLines + 1: at end of file
  nIncl,    \* inclusions begun
  tu0,      \* the macro table the translation unit started with
  first,    \* the macro table at the end of the first inclusion
  base,     \* base address of the block on this platform
  addr      \* absolute address the driver computed for each register

vars == <<macros, cond, out, order, diag, pc, nIncl, tu0, first, base, addr>>

Cur == [macros |-> macros, cond |-> cond, out |-> out, order |-> order, diag |-> diag]

Load(p) ==
  /\ macros' = p.macros
  /\ cond' = p.cond
  /\ out' = p.out
  /\ order' = p.order
  /\ diag' = p.diag

Init ==
  /\ macros \in TUTables
  /\ cond = <<>>
  /\ out = <<>>
  /\ order = <<>>
  /\ diag = {}
  /\ pc = 0
  /\ nIncl = 0
  /\ tu0 = macros
  /\ first = macros
  /\ base \in Bases
  /\ addr = [r \in Registers |-> NoAddr]

AtLine(kinds) == pc \in 1..NLines /\ Header[pc].kind \in kinds

\* #include "ECC.h"
StartInclude ==
  /\ pc = 0
  /\ nIncl < MaxIncludes
  /\ pc' = 1
  /\ nIncl' = nIncl + 1
  /\ UNCHANGED <<macros, cond, out, order, diag, tu0, first, base, addr>>

ProcBlank ==
  /\ AtLine({"blank"})
  /\ Load(StepLine(Cur, Header[pc]))
  /\ pc' = pc + 1
  /\ UNCHANGED <<nIncl, tu0, first, base, addr>>

ProcIfndef ==
  /\ AtLine({"ifndef"})
  /\ Load(DoIfndef(Cur, Header[pc]))
  /\ pc' = pc + 1
  /\ UNCHANGED <<nIncl, tu0, first, base, addr>>

ProcIfdef ==
  /\ AtLine({"ifdef"})
  /\ Load(DoIfdef(Cur, Header[pc]))
  /\ pc' = pc + 1
  /\ UNCHANGED <<nIncl, tu0, first, base, addr>>

ProcEndif ==
  /\ AtLine({"endif"})
  /\ Load(DoEndif(Cur))
  /\ pc' = pc + 1
  /\ UNCHANGED <<nIncl, tu0, first, base, addr>>

ProcDefine ==
  /\ AtLine({"define"})
  /\ Active(cond)
  /\ Load(DoDefine(Cur, Header[pc]))
  /\ pc' = pc + 1
  /\ UNCHANGED <<nIncl, tu0, first, base, addr>>

ProcText ==
  /\ AtLine({"text"})
  /\ Active(cond)
  /\ Load(DoText(Cur, Header[pc]))
  /\ pc' = pc + 1
  /\ UNCHANGED <<nIncl, tu0, first, base, addr>>

\* a #define or text line inside a group that is being skipped
SkipLine ==
  /\ AtLine({"define", "text"})
  /\ ~Active(cond)
  /\ Load(StepLine(Cur, Header[pc]))
  /\ pc' = pc + 1
  /\ UNCHANGED <<nIncl, tu0, first, base, addr>>

EndInclude ==
  /\ pc = NLines + 1
  /\ Load(DoEndOfFile(Cur))
  /\ pc' = 0
  /\ first' = IF nIncl = 1 THEN macros ELSE first
  /\ UNCHANGED <<nIncl, tu0, base, addr>>

\* the driver computes the absolute address of register r
ConsumerUse(r) ==
  /\ pc = 0
  /\ nIncl >= 1
  /\ macros[OffsetName(r)].defined
  /\ addr' = [addr EXCEPT ![r] = base + Value(OffsetName(r), macros)]
  /\ UNCHANGED <<macros, cond, out, order, diag, pc, nIncl, tu0, first, base>>

Next ==
  \/ StartInclude
  \/ ProcBlank
  \/ ProcIfndef
  \/ ProcIfdef
  \/ ProcEndif
  \/ ProcDefine
  \/ ProcText
  \/ SkipLine
  \/ EndInclude
  \/ \E r \in Registers : ConsumerUse(r)

Spec == Init /\ [][Next]_vars

(***************************************************************************)
(* What the claims speak of.                                               *)
(***************************************************************************)
Range(seq) == {seq[i] : i \in 1..Len(seq)}
Count(seq, x) == Cardinality({i \in 1..Len(seq) : seq[i] = x})

\* an inclusion has been processed to its end and none is in progress
AfterInclude == pc = 0 /\ nIncl >= 1

\* the register offset table the macro table m holds: register name -> offset
OffsetTableOf(m) ==
  [r \in {q \in Registers : m[OffsetName(q)].defined} |-> Value(OffsetName(r), m)]
OffsetTable == OffsetTableOf(macros)

FourRegisters ==
  { "DATA_CORRECTABLE_ERRORS", "DATA_UNCORRECTABLE_ERRORS",
    "METADATA_CORRECTABLE_ERRORS", "METADATA_UNCORRECTABLE_ERRORS" }
FiveConstants == {WIDTH} \cup {OffsetName(r) : r \in FourRegisters}

\* bytes per register, from the width constant
WidthBytes == Value(WIDTH, macros) \div 8

\* C1: after the header has been processed the offset table maps exactly
\* DATA_CORRECTABLE_ERRORS to 0x0, DATA_UNCORRECTABLE_ERRORS to 0x4,
\* METADATA_CORRECTABLE_ERRORS to 0x8 and METADATA_UNCORRECTABLE_ERRORS to
\* 0xc, and the header has defined no further constant.
C1_ExactTable ==
  AfterInclude =>
    /\ OffsetTable = ("DATA_CORRECTABLE_ERRORS" :> 0
                        @@ "DATA_UNCORRECTABLE_ERRORS" :> 4
                        @@ "METADATA_CORRECTABLE_ERRORS" :> 8
                        @@ "METADATA_UNCORRECTABLE_ERRORS" :> 12)
    /\ Range(order) \ {GUARD, WIDTH} = {OffsetName(r) : r \in FourRegisters}
C1_Witness ==
  AfterInclude /\ Cardinality(DOMAIN OffsetTable) = 4 /\ nIncl = 1

\* C2: the header defines exactly one register-width constant,
\* HCI_ECC_MANAGER_PARAM_REG_WIDTH, its value is 32, and no register has a
\* width constant of its own.
C2_OneWidth ==
  AfterInclude =>
    /\ {n \in Range(order) : n[Len(n)] = "REG_WIDTH"} = {WIDTH}
    /\ Value(WIDTH, macros) = 32
    /\ \A r \in Registers : <<BLOCK, r, "REG_WIDTH">> \notin Range(order)
C2_Witness ==
  AfterInclude /\ macros[WIDTH].defined /\ Cardinality(DOMAIN OffsetTable) = 4

\* C3: at every moment, two distinct registers the header has defined have
\* different offsets.
C3_Uniqueness ==
  \A r1, r2 \in DOMAIN OffsetTable : r1 # r2 => OffsetTable[r1] # OffsetTable[r2]
C3_Witness ==
  pc = 0 /\ Cardinality(DOMAIN OffsetTable) = 4

\* C4: every offset the header has defined is a multiple of width / 8 = 4.
C4_Alignment ==
  \A r \in DOMAIN OffsetTable :
    /\ macros[WIDTH].defined
    /\ WidthBytes = 4
    /\ OffsetTable[r] % WidthBytes = 0
C4_Witness ==
  pc = NLines + 1 /\ Cardinality(DOMAIN OffsetTable) = 4 /\ WidthBytes = 4

\* C5: including the header again raises no diagnostic: from the second
\* inclusion on every #define and text line is skipped, no name is defined
\* twice, and the macro table stays the one the first inclusion left.
C5_Idempotent ==
  /\ diag = {}
  /\ \A n \in MacroNames : Count(order, n) <= 1
  /\ (nIncl >= 2 /\ AtLine({"define", "text"})) => ~Active(cond)
  /\ AfterInclude => macros = first
C5_Witness ==
  pc = 0 /\ nIncl >= 2 /\ macros[GUARD].defined /\ Len(order) = 6

\* the translation unit's table with the language switched between C and C++
OtherLanguage(tbl) ==
  [tbl EXCEPT ![CPLUSPLUS] =
     IF tbl[CPLUSPLUS].defined THEN Undefined
     ELSE Defined(<<Num(<<"2", "0", "1", "7", "0", "3", "L">>)>>)]
Opens(toks) == Count(toks, Tok("{"))
Closes(toks) == Count(toks, Tok("}"))

\* C6: the constants and their values are the same as those the same
\* translation unit gets in the other language; the extern "C" block is
\* opened exactly when __cplusplus is defined and is then closed before the
\* end of the header; a C translation unit receives no text at all.
C6_DualLinkage ==
  /\ Closes(out) <= Opens(out)
  /\ Opens(out) >= 1 => tu0[CPLUSPLUS].defined
  /\ ~tu0[CPLUSPLUS].defined => out = <<>>
  /\ AfterInclude =>
       /\ Opens(out) = Closes(out)
       /\ tu0[CPLUSPLUS].defined =>
            out = <<Tok("extern"), Tok("\"C\""), Tok("{"), Tok("}")>>
       /\ LET other == Include(FreshPP(OtherLanguage(tu0)))
          IN /\ \A n \in MacroNames \ {CPLUSPLUS} : macros[n] = other.macros[n]
             /\ order = other.order
             /\ diag = other.diag
C6_Witness ==
  AfterInclude /\ tu0[CPLUSPLUS].defined /\ Opens(out) = 1 /\ Closes(out) = 1

C8_Immutable ==
  /\ [][\A n \in MacroNames : macros[n].defined => macros'[n] = macros[n]]_vars
  /\ [](\A n \in MacroNames : Count(order, n) <= 1)
  /\ [](\A n \in MacroNames \ ({GUARD} \cup FiveConstants) : macros[n] = tu0[n])
  /\ [](Range(out) \subseteq {Tok("extern"), Tok("\"C\""), Tok("{"), Tok("}")})
  /\ [](Opens(out) <= 1)
C8_Witness ==
  /\ pc = 0
  /\ nIncl >= 2
  /\ \A n \in FiveConstants : macros[n].defined
  /\ \E r \in Registers : addr[r] # NoAddr

\* the bytes register r occupies, from the address the driver computed
Bytes(r) == addr[r] .. (addr[r] + WidthBytes - 1)

\* C9: the offsets are exactly 0, 4, 8 and 12, that is i * width / 8 for
\* i in 0..3; the addresses the driver computes from them give four
\* pairwise disjoint 4-byte ranges that cover the 16 bytes from the base.
C9_Dense ==
  /\ AfterInclude =>
       /\ {OffsetTable[r] : r \in DOMAIN OffsetTable} = {i * WidthBytes : i \in 0..3}
       /\ {OffsetTable[r] : r \in DOMAIN OffsetTable} = {0, 4, 8, 12}
  /\ \A r \in Registers : addr[r] # NoAddr => addr[r] \in base .. (base + 12)
  /\ (\A r \in Registers : addr[r] # NoAddr) =>
       /\ \A r1, r2 \in Registers : r1 # r2 => Bytes(r1) \cap Bytes(r2) = {}
       /\ UNION {Bytes(r) : r \in Registers} = base .. (base + 15)
C9_Witness ==
  /\ Cardinality(Registers) = 4
  /\ \A r \in Registers : addr[r] # NoAddr
  /\ base = 4100

\* the offset constants in the order in which the header defined them
OffsetsDefined(seq) == SelectSeq(seq, LAMBDA n : Len(n) = 3 /\ n[3] = "REG_OFFSET")

\* C10: the header defines the registers in the order DATA_CORRECTABLE_ERRORS,
\* DATA_UNCORRECTABLE_ERRORS, METADATA_CORRECTABLE_ERRORS,
\* METADATA_UNCORRECTABLE_ERRORS, each with a greater offset than the one
\* before, and defines the width before any offset.
C10_Ascending ==
  LET offs == OffsetsDefined(order)
      want == << OffsetName("DATA_CORRECTABLE_ERRORS"),
                 OffsetName("DATA_UNCORRECTABLE_ERRORS"),
                 OffsetName("METADATA_CORRECTABLE_ERRORS"),
                 OffsetName("METADATA_UNCORRECTABLE_ERRORS") >>
  IN /\ Len(offs) <= 4
     /\ offs = SubSeq(want, 1, Len(offs))
     /\ \A i \in 1..Len(offs) - 1 : Value(offs[i], macros) < Value(offs[i + 1], macros)
     /\ \A i, j \in 1..Len(order) :
          (order[i] = WIDTH /\ order[j] \in Range(offs)) => i < j
     /\ offs # <<>> => WIDTH \in Range(order)
     /\ AfterInclude => Len(offs) = 4
C10_Witness ==
  /\ pc = 23
  /\ Len(OffsetsDefined(order)) = 4
  /\ Value(order[Len(order)], macros) = 12

====
